---------------------------- MODULE Spec2Model ----------------------------
(***************************************************************************)
(* Model of dinoclib/dfir_orc.py: extraction of a DFIR-Orc archive into a  *)
(* destination tree (extract), the manifest parser (_parse_getthis), the   *)
(* single-file writer (_write_file) and the volume renamer                 *)
(* (_rename_volumes).                                                      *)
(*                                                                         *)
(* Strings are sequences of one-character strings, so that endswith,       *)
(* slicing, replace and prefix matching are computed as Python computes    *)
(* them.  A file-system path is the sequence of its components from the    *)
(* file-system root.  The file system is POSIX (os.rename replaces an      *)
(* existing file or an empty directory and fails on a non-empty one).      *)
(* CSV tokenizing and 7z decoding are the external libraries' work: a CSV  *)
(* file is its set of columns and its sequence of rows, an archive is its  *)
(* sequence of members, and "bad" bytes are what py7zr rejects with        *)
(* Bad7zFile.  Only archives without password protection are drawn.        *)
(***************************************************************************)
EXTENDS Integers, Sequences, FiniteSets, TLC

(***************************************************************************)
(* Bounds of the model.                                                    *)
(***************************************************************************)
MaxMembers == 3
MaxDepth == 2
MaxCalls == 2
MaxRows == 2

(***************************************************************************)
(* Strings.                                                                *)
(***************************************************************************)
GetThisName == <<"G", "e", "t", "T", "h", "i", "s", ".", "c", "s", "v">>
StatisticsName == <<"S", "t", "a", "t", "i", "s", "t", "i", "c", "s", ".", "j", "s", "o", "n">>
LogExt == <<".", "l", "o", "g">>
ArchiveExt == <<".", "7", "z">>
VolstatsName == <<"v", "o", "l", "s", "t", "a", "t", "s", ".", "c", "s", "v">>
NonExtractedName == <<"n", "o", "n", "_", "e", "x", "t", "r", "a", "c", "t", "e", "d", ".", "l", "o", "g">>
OrcOutputs == <<"o", "r", "c", "_", "o", "u", "t", "p", "u", "t", "s">>
Commands == <<"c", "o", "m", "m", "a", "n", "d", "s">>
Logs == <<"l", "o", "g", "s">>
ZeroSnapshot == <<"{", "0", "0", "0", "0", "0", "0", "0", "0", "-", "0", "0", "0", "0", "-", "0", "0", "0", "0", "-", "0", "0", "0", "0", "-", "0", "0", "0", "0", "0", "0", "0", "0", "0", "0", "0", "0", "}">>

\* s.endswith(suffix)
endswith(s, suffix) ==
  /\ Len(suffix) <= Len(s)
  /\ SubSeq(s, Len(s) - Len(suffix) + 1, Len(s)) = suffix

\* s.startswith(prefix): what the glob pattern f'{prefix}*' matches
startswith(s, prefix) ==
  /\ Len(prefix) <= Len(s)
  /\ SubSeq(s, 1, Len(prefix)) = prefix

\* s[1:]
DropFirst(s) == SubSeq(s, 2, Len(s))

\* s[:-3]
DropLast3(s) == SubSeq(s, 1, Len(s) - 3)

\* s.replace('\\', '/')
NormSep(s) == [i \in 1..Len(s) |-> IF s[i] = "\\" THEN "/" ELSE s[i]]

\* s.replace(old, new), every non-overlapping occurrence from the left;
\* old is not empty
RECURSIVE replace(_, _, _)
replace(s, old, new) ==
  IF s = <<>> THEN <<>>
  ELSE IF startswith(s, old)
       THEN new \o replace(SubSeq(s, Len(old) + 1, Len(s)), old, new)
       ELSE <<Head(s)>> \o replace(Tail(s), old, new)

(***************************************************************************)
(* pathlib.  A pure path is [abs, parts]; a path of the file system is     *)
(* the sequence of components of an absolute path.                         *)
(***************************************************************************)
\* s.split('/')
RECURSIVE SplitSlash(_)
SplitSlash(s) ==
  IF s = <<>> THEN << <<>> >>
  ELSE CHOOSE parts \in { IF Head(s) = "/" THEN << <<>> >> \o r
                           ELSE << <<Head(s)>> \o Head(r) >> \o Tail(r)
                           : r \in {SplitSlash(Tail(s))} } : TRUE

\* the components pathlib keeps: empty ones and '.' are dropped
PathParts(s) == SelectSeq(SplitSlash(s), LAMBDA c : c /= <<>> /\ c /= <<".">>)

IsAbsStr(s) == s /= <<>> /\ Head(s) = "/"

\* pathlib.Path(s)
PurePath(s) == [abs |-> IsAbsStr(s), parts |-> PathParts(s)]

\* pathlib.Path(a, b): an absolute b drops a
PurePath2(a, b) ==
  IF IsAbsStr(b) THEN PurePath(b)
  ELSE [abs |-> IsAbsStr(a), parts |-> PathParts(a) \o PathParts(b)]

\* base.joinpath(p) for a path base of the file system
joinpath(base, p) == IF p.abs THEN p.parts ELSE base \o p.parts

\* path.parent
Parent(path) == SubSeq(path, 1, Len(path) - 1)

\* the proper and improper prefixes of a path, the root included
Prefixes(path) == {SubSeq(path, 1, n) : n \in 0..Len(path)}

IsUnder(path, dir) == Len(dir) <= Len(path) /\ SubSeq(path, 1, Len(dir)) = dir

(***************************************************************************)
(* File contents.                                                          *)
(***************************************************************************)
Raw(b) == [kind |-> "raw", bytes |-> b, cols |-> {}, rows |-> <<>>, members |-> <<>>]
Csv(cols, rows) == [kind |-> "csv", bytes |-> 0, cols |-> cols, rows |-> rows, members |-> <<>>]
SevenZ(members) == [kind |-> "7z", bytes |-> 0, cols |-> {}, rows |-> <<>>, members |-> members]
Bad7z == [kind |-> "bad", bytes |-> 0, cols |-> {}, rows |-> <<>>, members |-> <<>>]
\* the text of non_extracted.log: its lines
LogText(lines) == [kind |-> "log", bytes |-> 0, cols |-> {}, rows |-> lines, members |-> <<>>]

Member(name, content) == [name |-> name, content |-> content]

(***************************************************************************)
(* The file system: fs = [files, dirs, readonly].  files maps the path of  *)
(* every regular file to its content, dirs is the set of directories (the  *)
(* root <<>> is one), readonly the directories in which the process may    *)
(* not create an entry.                                                    *)
(***************************************************************************)
is_file(fs, path) == path \in DOMAIN fs.files
is_dir(fs, path) == path \in fs.dirs
exists(fs, path) == is_file(fs, path) \/ is_dir(fs, path)

Put(f, k, v) == [x \in DOMAIN f \cup {k} |-> IF x = k THEN v ELSE f[x]]

\* the directories path.mkdir(parents=True, exist_ok=True) has to create
MissingDirs(fs, path) == Prefixes(path) \ fs.dirs

\* path.mkdir(parents=True, exist_ok=True) raises OSError: a component is a
\* regular file, or a missing directory lies in a read-only one
mkdir_fails(fs, path) ==
  \/ \E q \in Prefixes(path) : is_file(fs, q)
  \/ \E q \in MissingDirs(fs, path) : Parent(q) \in fs.readonly

mkdir(fs, path) == [fs EXCEPT !.dirs = fs.dirs \cup Prefixes(path)]

\* open(path, 'wb') raises OSError: the path is a directory, its parent is
\* none, or the file is new in a read-only directory
open_wb_fails(fs, path) ==
  \/ is_dir(fs, path)
  \/ ~is_dir(fs, Parent(path))
  \/ ~is_file(fs, path) /\ Parent(path) \in fs.readonly

\* write_bytes writing content.read() of a stream already read to its end:
\* the file is created with no byte of the member
write_rest_of_stream(fs, path, content) ==
  [fs EXCEPT !.files = Put(fs.files, path, Raw(0))]

\* open(path, 'wb'); write(content): the file is created or truncated
write_bytes(fs, path, content) == [fs EXCEPT !.files = Put(fs.files, path, content)]

\* _write_file without the test of line 24
WriteFileNoExistsTest(fs, file_path, content) ==
  IF mkdir_fails(fs, Parent(file_path))
  THEN [ok |-> FALSE, fs |-> fs]
  ELSE IF open_wb_fails(mkdir(fs, Parent(file_path)), file_path)
  THEN [ok |-> FALSE, fs |-> mkdir(fs, Parent(file_path))]
  ELSE [ok |-> TRUE,
        fs |-> write_bytes(mkdir(fs, Parent(file_path)), file_path, content)]

(***************************************************************************)
(* _write_file(file_path, content): [ok, fs], the value returned and the   *)
(* file system left behind.                                                *)
(***************************************************************************)
_write_file(fs, file_path, content) ==
  IF is_file(fs, file_path)
  THEN [ok |-> FALSE, fs |-> fs]
  ELSE IF mkdir_fails(fs, Parent(file_path))
  THEN [ok |-> FALSE, fs |-> fs]
  ELSE IF open_wb_fails(mkdir(fs, Parent(file_path)), file_path)
  THEN [ok |-> FALSE, fs |-> mkdir(fs, Parent(file_path))]
  ELSE [ok |-> TRUE,
        fs |-> write_bytes(mkdir(fs, Parent(file_path)), file_path, content)]

(***************************************************************************)
(* _root_folder_name and _parse_getthis.                                   *)
(***************************************************************************)
_root_folder_name(volume_id, snapshot_id) ==
  IF snapshot_id = ZeroSnapshot
  THEN volume_id
  ELSE volume_id \o <<" ", "(", "v", "s", "s", " ">> \o snapshot_id \o <<")">>

\* RowPath with the [1:] of line 49 left out
RowPathKeepsSeparator(row) ==
  PurePath2(_root_folder_name(row.VolumeID, row.SnapshotID), NormSep(row.FullName))

\* the key and the value line 49 stores for one row
RowKey(row) == NormSep(row.SampleName)
RowPath(row) ==
  PurePath2(_root_folder_name(row.VolumeID, row.SnapshotID),
            DropFirst(NormSep(row.FullName)))

\* the loop of lines 48-49 over the rows left, result being the dict so far
RECURSIVE ParseRows(_, _)
ParseRows(rows, result) ==
  IF rows = <<>> THEN result
  ELSE ParseRows(Tail(rows), Put(result, RowKey(Head(rows)), RowPath(Head(rows))))

_parse_getthis(getthis_content) == ParseRows(getthis_content.rows, <<>>)

(***************************************************************************)
(* os.rename(src, dst) on POSIX: [ok, fs].                                 *)
(***************************************************************************)
Rekey(path, src, dst) ==
  IF IsUnder(path, src) THEN dst \o SubSeq(path, Len(src) + 1, Len(path)) ELSE path

IsEmptyDir(fs, path) ==
  /\ is_dir(fs, path)
  /\ \A q \in fs.dirs \cup DOMAIN fs.files : IsUnder(q, path) => q = path

rename_fails(fs, src, dst) ==
  \/ ~exists(fs, src)
  \/ /\ src /= dst
     /\ \/ Parent(src) \in fs.readonly
        \/ Parent(dst) \in fs.readonly
        \/ is_dir(fs, src) /\ is_file(fs, dst)
        \/ is_dir(fs, src) /\ is_dir(fs, dst) /\ ~IsEmptyDir(fs, dst)
        \/ is_file(fs, src) /\ is_dir(fs, dst)

\* the tree after a rename that does not fail: src and all below it move to
\* dst, replacing the file or the empty directory that was there
rename_moves(fs, src, dst) ==
  IF src = dst THEN fs
  ELSE LET kept == {q \in DOMAIN fs.files : q /= dst}
       IN  [files |-> [q \in {Rekey(k, src, dst) : k \in kept} |->
                         fs.files[CHOOSE k \in kept : Rekey(k, src, dst) = q]],
            dirs |-> {Rekey(d, src, dst) : d \in fs.dirs},
            readonly |-> {Rekey(d, src, dst) : d \in fs.readonly}]

os_rename(fs, src, dst) ==
  IF rename_fails(fs, src, dst)
  THEN [ok |-> FALSE, fs |-> fs]
  ELSE [ok |-> TRUE, fs |-> rename_moves(fs, src, dst)]

(***************************************************************************)
(* extract: the paths of lines 121-123 and the classification of lines     *)
(* 155-169.                                                                *)
(***************************************************************************)
destination_path == << <<"o", "u", "t">> >>
cmd_ouptuts_path == destination_path \o <<OrcOutputs, Commands>>
logs_path == destination_path \o <<OrcOutputs, Logs>>
script_logs_path == destination_path \o <<NonExtractedName>>

\* Classify with the recursion of lines 164-166 taken for .log members too
ClassifyRecursesIntoLogs(filename, getthis_mapping, archive_name) ==
  IF filename \in DOMAIN getthis_mapping
  THEN [recurse |-> FALSE,
        final_path |-> joinpath(destination_path, getthis_mapping[filename])]
  ELSE IF filename \in {GetThisName, StatisticsName}
  THEN [recurse |-> FALSE,
        final_path |-> joinpath(logs_path,
                                PurePath(DropLast3(archive_name) \o <<"_">> \o filename))]
  ELSE IF endswith(filename, ArchiveExt) \/ endswith(filename, LogExt)
  THEN [recurse |-> TRUE, final_path |-> <<>>]
  ELSE [recurse |-> FALSE, final_path |-> joinpath(cmd_ouptuts_path, PurePath(filename))]

\* Classify with the archive name left out of the name of line 162
ClassifyNoPrefix(filename, getthis_mapping, archive_name) ==
  IF filename \in DOMAIN getthis_mapping
  THEN [recurse |-> FALSE,
        final_path |-> joinpath(destination_path, getthis_mapping[filename])]
  ELSE IF endswith(filename, LogExt)
  THEN [recurse |-> FALSE, final_path |-> joinpath(logs_path, PurePath(filename))]
  ELSE IF filename \in {GetThisName, StatisticsName}
  THEN [recurse |-> FALSE, final_path |-> joinpath(logs_path, PurePath(filename))]
  ELSE IF endswith(filename, ArchiveExt)
  THEN [recurse |-> TRUE, final_path |-> <<>>]
  ELSE [recurse |-> FALSE, final_path |-> joinpath(cmd_ouptuts_path, PurePath(filename))]

\* Classify without the branch of lines 164-166
ClassifyNoRecursion(filename, getthis_mapping, archive_name) ==
  IF filename \in DOMAIN getthis_mapping
  THEN [recurse |-> FALSE,
        final_path |-> joinpath(destination_path, getthis_mapping[filename])]
  ELSE IF endswith(filename, LogExt)
  THEN [recurse |-> FALSE, final_path |-> joinpath(logs_path, PurePath(filename))]
  ELSE IF filename \in {GetThisName, StatisticsName}
  THEN [recurse |-> FALSE,
        final_path |-> joinpath(logs_path,
                                PurePath(DropLast3(archive_name) \o <<"_">> \o filename))]
  ELSE [recurse |-> FALSE, final_path |-> joinpath(cmd_ouptuts_path, PurePath(filename))]

\* Classify with the tests of lines 155 and 158 exchanged
ClassifyLogFirst(filename, getthis_mapping, archive_name) ==
  IF endswith(filename, LogExt)
  THEN [recurse |-> FALSE, final_path |-> joinpath(logs_path, PurePath(filename))]
  ELSE IF filename \in DOMAIN getthis_mapping
  THEN [recurse |-> FALSE,
        final_path |-> joinpath(destination_path, getthis_mapping[filename])]
  ELSE IF filename \in {GetThisName, StatisticsName}
  THEN [recurse |-> FALSE,
        final_path |-> joinpath(logs_path,
                                PurePath(DropLast3(archive_name) \o <<"_">> \o filename))]
  ELSE IF endswith(filename, ArchiveExt)
  THEN [recurse |-> TRUE, final_path |-> <<>>]
  ELSE [recurse |-> FALSE, final_path |-> joinpath(cmd_ouptuts_path, PurePath(filename))]

\* lines 155-169: [recurse, final_path] for one member
Classify(filename, getthis_mapping, archive_name) ==
  IF filename \in DOMAIN getthis_mapping
  THEN [recurse |-> FALSE,
        final_path |-> joinpath(destination_path, getthis_mapping[filename])]
  ELSE IF endswith(filename, LogExt)
  THEN [recurse |-> FALSE, final_path |-> joinpath(logs_path, PurePath(filename))]
  ELSE IF filename \in {GetThisName, StatisticsName}
  THEN [recurse |-> FALSE,
        final_path |-> joinpath(logs_path,
                                PurePath(DropLast3(archive_name) \o <<"_">> \o filename))]
  ELSE IF endswith(filename, ArchiveExt)
  THEN [recurse |-> TRUE, final_path |-> <<>>]
  ELSE [recurse |-> FALSE, final_path |-> joinpath(cmd_ouptuts_path, PurePath(filename))]

\* a line of non_extracted.log (line 173)
LogLine(archive_name, filename, final_path) ==
  [archive |-> archive_name, member |-> filename, path |-> final_path]

\* the text a handle opened with open(path, 'a') adds when it is flushed
Append_a(fs, path, lines) ==
  IF is_file(fs, path)
  THEN [fs EXCEPT !.files = Put(fs.files, path,
                                [fs.files[path] EXCEPT !.rows = @ \o lines])]
  ELSE [fs EXCEPT !.files = Put(fs.files, path, LogText(lines))]

(***************************************************************************)
(* _rename_volumes: the two globs of lines 58 and 66 and the rename of     *)
(* lines 67-71.                                                            *)
(***************************************************************************)
Last(s) == s[Len(s)]

\* destination_path.glob('**/volstats.csv')
GlobVolstats(fs) ==
  {q \in fs.dirs \cup DOMAIN fs.files :
     /\ IsUnder(q, destination_path)
     /\ Len(q) > Len(destination_path)
     /\ Last(q) = VolstatsName}

\* destination_path.glob(f'{volume_id}*')
GlobVolume(fs, volume_id) ==
  {q \in fs.dirs \cup DOMAIN fs.files :
     /\ Parent(q) = destination_path
     /\ Len(q) = Len(destination_path) + 1
     /\ startswith(Last(q), volume_id)}

\* row.get('MountPoint', '')
MountPointOf(cols, row) == IF "MountPoint" \in cols THEN row.MountPoint ELSE <<>>

\* RenameTarget with MountPoint in place of MountPoint[0]
RenameTargetWholeMountPoint(dir, row) ==
  Parent(dir) \o <<replace(Last(dir), row.VolumeID, row.MountPoint)>>

\* lines 67-71: the name dir is renamed to
RenameTarget(dir, row) ==
  Parent(dir) \o <<replace(Last(dir), row.VolumeID, <<row.MountPoint[1]>>)>>

(***************************************************************************)
(* Inputs: the archives extract is called on and the trees it starts from. *)
(***************************************************************************)
V1 == <<"V", "1">>
V2 == <<"V", "2">>
S1 == <<"S", "1">>
GetThisCols == {"SampleName", "VolumeID", "SnapshotID", "FullName"}
VolstatsCols == {"VolumeID", "MountPoint"}

GRow(sample, volume, snapshot, full) ==
  [SampleName |-> sample, VolumeID |-> volume, SnapshotID |-> snapshot,
   FullName |-> full, MountPoint |-> <<>>]
VRow(volume, mount) ==
  [SampleName |-> <<>>, VolumeID |-> volume, SnapshotID |-> <<>>,
   FullName |-> <<>>, MountPoint |-> mount]

\* a manifest with a duplicate sample name, a snapshot, and keys that end
\* with the log and the archive extension
ManifestA ==
  << GRow(<<"s", "1">>, V2, ZeroSnapshot, <<"\\", "U", "\\", "a">>),
     GRow(<<"s", "1">>, V1, ZeroSnapshot, <<"\\", "U", "\\", "a">>),
     GRow(<<"a", ".", "l", "o", "g">>, V1, S1, <<"\\", "U", "\\", "a">>),
     GRow(<<"b", ".", "7", "z">>, V2, ZeroSnapshot, <<"\\", "b">>) >>

VolstatsA == << VRow(V1, <<"C", ":">>), VRow(V2, <<>>) >>

\* the statistics of a nested archive: another volume, mounted on D:
VolstatsB == << VRow(V2, <<"D", ":">>) >>

\* the manifest of a nested archive: the sample s1 is of another volume
ManifestB == << GRow(<<"s", "1">>, V2, S1, <<"\\", "U", "\\", "c">>) >>

LeafPool ==
  { Member(GetThisName, Csv(GetThisCols, ManifestA)),
    Member(<<"s", "1">>, Raw(1)),
    Member(<<"a", ".", "l", "o", "g">>, Raw(2)),
    Member(VolstatsName, Csv(VolstatsCols, VolstatsA)),
    Member(StatisticsName, Raw(4)),
    Member(<<"b", ".", "7", "z">>, Bad7z) }

NestedNames == { <<"a", ".", "7", "z">> }

Names(members) == {members[i].name : i \in 1..Len(members)}

\* the member lists of at most n members in all, nested ones counted, and
\* of nesting depth at most d; the names of one container are distinct
RECURSIVE MemberLists(_, _)
MemberLists(n, d) ==
  IF n = 0 THEN { <<>> }
  ELSE { <<>> } \cup UNION {
         LET heads == (IF k = 1 THEN LeafPool ELSE {}) \cup
                      (IF d > 0
                       THEN {Member(nm, SevenZ(s)) :
                               nm \in NestedNames, s \in MemberLists(k - 1, d - 1)}
                       ELSE {})
         IN  UNION { { <<m>> \o r :
                         r \in {x \in MemberLists(n - k, d) : m.name \notin Names(x)} }
                     : m \in heads }
         : k \in 1..n }

TopName == <<"o", ".", "7", "z">>

\* larger archives than the bounds draw: a collection with a manifest, a
\* sample of a volume, a sample of a snapshot and the volume statistics
Scenarios ==
  { << Member(GetThisName, Csv(GetThisCols, ManifestA)),
       Member(<<"s", "1">>, Raw(1)),
       Member(<<"a", ".", "l", "o", "g">>, Raw(2)),
       Member(<<"b", ".", "7", "z">>, Bad7z),
       Member(VolstatsName, Csv(VolstatsCols, VolstatsA)) >>,
    << Member(<<"a", ".", "7", "z">>,
              SevenZ(<< Member(<<"s", "1">>, Raw(1)),
                        Member(VolstatsName, Csv(VolstatsCols, VolstatsA)) >>)),
       Member(VolstatsName, Csv(VolstatsCols, VolstatsA)) >>,
    << Member(GetThisName, Csv(GetThisCols, ManifestA)),
       Member(<<"a", ".", "7", "z">>,
              SevenZ(<< Member(GetThisName, Csv(GetThisCols, ManifestB)),
                        Member(<<"s", "1">>, Raw(3)) >>)),
       Member(<<"s", "1">>, Raw(1)) >>,
    << Member(GetThisName, Csv(GetThisCols, ManifestA)),
       Member(<<"a", ".", "7", "z">>, SevenZ(<< Member(<<"s", "1">>, Raw(3)) >>)),
       Member(<<"s", "1">>, Raw(1)) >>,
    << Member(<<"a", ".", "7", "z">>,
              SevenZ(<< Member(GetThisName, Csv(GetThisCols, ManifestA)) >>)),
       Member(<<"c", ".", "7", "z">>,
              SevenZ(<< Member(GetThisName, Csv(GetThisCols, ManifestB)) >>)) >>,
    << Member(<<"a", ".", "7", "z">>,
              SevenZ(<< Member(GetThisName, Csv(GetThisCols, ManifestA)),
                        Member(<<"a", ".", "7", "z">>,
                               SevenZ(<< Member(GetThisName,
                                                Csv(GetThisCols, ManifestB)) >>)) >>)) >>,
    << Member(<<"a", ".", "7", "z">>,
              SevenZ(<< Member(GetThisName, Csv(GetThisCols, ManifestA)),
                        Member(<<"s", "1">>, Raw(1)),
                        Member(VolstatsName, Csv(VolstatsCols, VolstatsA)) >>)),
       Member(<<"c", ".", "7", "z">>,
              SevenZ(<< Member(GetThisName, Csv(GetThisCols, ManifestB)),
                        Member(<<"s", "1">>, Raw(3)),
                        Member(VolstatsName, Csv(VolstatsCols, VolstatsB)) >>)) >> }

Inputs ==
  {[archive |-> c, archive_name |-> TopName, rename_volumes |-> r] :
     c \in {SevenZ(s) : s \in MemberLists(MaxMembers, MaxDepth) \cup Scenarios}
            \cup {Bad7z},
     r \in BOOLEAN}

EmptyTree == [files |-> <<>>, dirs |-> { <<>> }, readonly |-> {}]

\* a destination that is not empty: the file of sample s1 is there with
\* other bytes, commands/s1 is a directory, logs is read-only
DirtyTree ==
  [files |-> Put(<<>>, destination_path \o <<V1, <<"U">>, <<"a">> >>, Raw(9)),
   dirs |-> Prefixes(destination_path \o <<V1, <<"U">> >>)
            \cup Prefixes(cmd_ouptuts_path \o << <<"s", "1">> >>)
            \cup Prefixes(logs_path),
   readonly |-> {logs_path}]

\* a destination an earlier extraction of another archive of the same
\* machine has left: volume V1 is there under its mount point C
RenamedTree ==
  [files |-> Put(<<>>, destination_path \o << <<"C">>, <<"U">>, <<"x">> >>, Raw(8)),
   dirs |-> Prefixes(destination_path \o << <<"C">>, <<"U">> >>),
   readonly |-> {}]

InitialTrees == {EmptyTree, DirtyTree, RenamedTree}

(***************************************************************************)
(* State.                                                                  *)
(*   arg      the arguments of the top-level calls of this run             *)
(*   fs       the file system                                              *)
(*   stack    the frames of extract, the outermost first                   *)
(*   calls    one record per top-level call: its outcome ("running",       *)
(*            "True", "False", "raised"), the file system it started on,   *)
(*            the number of times it has entered _rename_volumes, and the  *)
(*            number of archives and log handles, opened by it, that were  *)
(*            not closed when it ended                                     *)
(*   attempts history: one record per call of _write_file                  *)
(*   renames  history: one record per call of dir.rename                   *)
(*   returns  history: one record per return statement of extract          *)
(***************************************************************************)
VARIABLES arg, fs, stack, calls, attempts, renames, returns

vars == <<arg, fs, stack, calls, attempts, renames, returns>>

\* the locals of one call of extract, at its first statement
NewFrame(archive, rename_volumes, archive_name) ==
  [pc |-> "open", archive |-> archive, rename_volumes |-> rename_volumes,
   archive_name |-> archive_name, files |-> <<>>, i |-> 1,
   getthis_mapping |-> <<>>, script_log |-> <<>>,
   archive_open |-> FALSE, log_open |-> FALSE,
   vfiles |-> {}, cols |-> {}, rows |-> <<>>, entries |-> {}]

Init ==
  /\ arg \in Inputs
  /\ fs \in InitialTrees
  /\ stack = <<>>
  /\ calls = <<>>
  /\ attempts = <<>>
  /\ renames = <<>>
  /\ returns = <<>>

Top == stack[Len(stack)]
At(pc) == stack /= <<>> /\ Top.pc = pc
SetTop(f) == [stack EXCEPT ![Len(stack)] = f]

\* the caller runs extract(archive_path, destination_path)
Call ==
  /\ stack = <<>>
  /\ Len(calls) < MaxCalls
  /\ stack' = <<NewFrame(arg.archive, arg.rename_volumes, arg.archive_name)>>
  /\ calls' = Append(calls, [outcome |-> "running", before |-> fs,
                             passes |-> 0, left_open |-> 0])
  /\ UNCHANGED <<arg, fs, attempts, renames, returns>>

\* the archives and the log handles the frames hold open
OpenHandles(frames) ==
  Cardinality({k \in DOMAIN frames : frames[k].archive_open})
  + Cardinality({k \in DOMAIN frames : frames[k].log_open})

\* a return statement of extract: the frame is popped; the recursive call of
\* line 165 drops the value and goes on with the next member
Return(value) ==
  /\ IF Len(stack) = 1
     THEN /\ stack' = <<>>
          /\ calls' = [calls EXCEPT ![Len(calls)].outcome = value,
                                    ![Len(calls)].left_open =
                                       @ + OpenHandles(<<stack[Len(stack)]>>)]
     ELSE /\ stack' = SubSeq(stack, 1, Len(stack) - 2)
                      \o <<[stack[Len(stack) - 1] EXCEPT !.i = @ + 1]>>
          /\ calls' = [calls EXCEPT ![Len(calls)].left_open =
                                       @ + OpenHandles(<<stack[Len(stack)]>>)]
  /\ returns' = Append(returns, [call |-> Len(calls), depth |-> Len(stack),
                                 archive |-> stack[Len(stack)].archive,
                                 value |-> value])

\* the text still buffered in the handles of script_log, written when the
\* frames are left
RECURSIVE FlushAll(_, _)
FlushAll(f, frames) ==
  IF frames = <<>> THEN f
  ELSE FlushAll(IF Last(frames).log_open
                THEN Append_a(f, script_logs_path, Last(frames).script_log)
                ELSE f,
                SubSeq(frames, 1, Len(frames) - 1))

\* an exception no frame catches: it leaves every frame of the call
Raise(f) ==
  /\ stack' = <<>>
  /\ calls' = [calls EXCEPT ![Len(calls)].outcome = "raised",
                            ![Len(calls)].left_open = @ + OpenHandles(stack)]
  /\ fs' = FlushAll(f, stack)
  /\ UNCHANGED returns

\* lines 131-136: the archive opens
OpenArchive ==
  /\ At("open")
  /\ Top.archive.kind = "7z"
  /\ stack' = SetTop([Top EXCEPT !.pc = "readall", !.archive_open = TRUE])
  /\ UNCHANGED <<arg, fs, calls, attempts, renames, returns>>

\* OpenInvalid with the statements of lines 144-145 run before the try of
\* line 131: the log is there before the archive is known to be one
OpenInvalidAfterLog ==
  /\ At("open")
  /\ Top.archive.kind /= "7z"
  /\ Return("False")
  /\ fs' = Append_a(mkdir(fs, Parent(script_logs_path)), script_logs_path, <<>>)
  /\ UNCHANGED <<arg, attempts, renames>>

\* lines 137-139: Bad7zFile
OpenInvalid ==
  /\ At("open")
  /\ Top.archive.kind /= "7z"
  /\ Return("False")
  /\ UNCHANGED <<arg, fs, attempts, renames>>

\* lines 142-145: readall, the destination directory, script_log opened
ReadAll ==
  /\ At("readall")
  /\ IF mkdir_fails(fs, Parent(script_logs_path))
     THEN Raise(fs)
     ELSE LET fs1 == mkdir(fs, Parent(script_logs_path))
          IN  IF \/ is_dir(fs1, script_logs_path)
                 \/ ~is_file(fs1, script_logs_path)
                    /\ Parent(script_logs_path) \in fs1.readonly
              THEN Raise(fs1)
              ELSE /\ fs' = Append_a(fs1, script_logs_path, <<>>)
                   /\ stack' = SetTop([Top EXCEPT !.pc = "scan",
                                                  !.files = Top.archive.members,
                                                  !.log_open = TRUE])
                   /\ UNCHANGED <<calls, returns>>
  /\ UNCHANGED <<arg, attempts, renames>>

\* files['GetThis.csv']
ContentNamed(files, name) ==
  (CHOOSE i \in 1..Len(files) : files[i].name = name)

\* csv.DictReader rows lack a column line 49 reads: KeyError
ParseRaises(content) == content.rows /= <<>> /\ ~(GetThisCols \subseteq content.cols)

\* lines 148-149
ManifestScan ==
  /\ At("scan")
  /\ IF GetThisName \in Names(Top.files)
     THEN LET c == Top.files[ContentNamed(Top.files, GetThisName)].content
          IN  IF ParseRaises(c)
              THEN Raise(fs)
              ELSE /\ stack' = SetTop([Top EXCEPT !.pc = "loop",
                                        !.getthis_mapping = _parse_getthis(c)])
                   /\ UNCHANGED <<fs, calls, returns>>
     ELSE /\ stack' = SetTop([Top EXCEPT !.pc = "loop"])
          /\ UNCHANGED <<fs, calls, returns>>
  /\ UNCHANGED <<arg, attempts, renames>>

\* the member and the classification of the iteration the loop is at
Current == Top.files[Top.i]
CurrentClass == Classify(Current.name, Top.getthis_mapping, Top.archive_name)

\* AfterWrite with the test of line 172 inverted
AfterWriteLogsSuccess(frame, ok, final_path) ==
  [frame EXCEPT !.i = @ + 1,
                !.script_log =
                   IF ~ok THEN @
                   ELSE Append(@, LogLine(frame.archive_name,
                                          frame.files[frame.i].name, final_path))]

\* AfterWrite leaving the loop of line 151 at the first failed write
AfterWriteBreaks(frame, ok, final_path) ==
  [frame EXCEPT !.i = IF ok THEN @ + 1 ELSE Len(frame.files) + 1,
                !.script_log =
                   IF ok THEN @
                   ELSE Append(@, LogLine(frame.archive_name,
                                          frame.files[frame.i].name, final_path))]

\* one iteration of the loop of lines 151-174 that writes a file: the frame
\* after it, given what _write_file returned
AfterWrite(frame, ok, final_path) ==
  [frame EXCEPT !.i = @ + 1,
                !.script_log =
                   IF ok THEN @
                   ELSE Append(@, LogLine(frame.archive_name,
                                          frame.files[frame.i].name, final_path))]

\* the name of the container the frame on top reads: the file the caller
\* named, or the member the frame below is at
Holder ==
  IF Len(stack) = 1 THEN arg.archive_name
  ELSE stack[Len(stack) - 1].files[stack[Len(stack) - 1].i].name

MemberWrite ==
  /\ At("loop")
  /\ Top.i <= Len(Top.files)
  /\ ~CurrentClass.recurse
  /\ \E final_path \in {CurrentClass.final_path} :
     \E w \in {_write_file(fs, final_path, Current.content)} :
         /\ fs' = w.fs
         /\ stack' = SetTop(AfterWrite(Top, w.ok, final_path))
         /\ attempts' = Append(attempts,
               [call |-> Len(calls), depth |-> Len(stack), holder |-> Holder,
                filename |-> Current.name, index |-> Top.i,
                content |-> Current.content,
                final_path |-> final_path, ok |-> w.ok,
                collision |-> is_file(fs, final_path)])
  /\ UNCHANGED <<arg, calls, renames, returns>>

\* lines 164-166: the recursive call
\* MemberRecurse handing its own getthis_mapping to the nested call
MemberRecurseHandsMapping ==
  /\ At("loop")
  /\ Top.i <= Len(Top.files)
  /\ CurrentClass.recurse
  /\ stack' = Append(stack, [NewFrame(Current.content, FALSE, Current.name)
                               EXCEPT !.getthis_mapping = Top.getthis_mapping])
  /\ UNCHANGED <<arg, fs, calls, attempts, renames, returns>>

\* MemberRecurse passing its own rename_volumes on
MemberRecurseRenames ==
  /\ At("loop")
  /\ Top.i <= Len(Top.files)
  /\ CurrentClass.recurse
  /\ stack' = Append(stack, NewFrame(Current.content, Top.rename_volumes, Current.name))
  /\ UNCHANGED <<arg, fs, calls, attempts, renames, returns>>

MemberRecurse ==
  /\ At("loop")
  /\ Top.i <= Len(Top.files)
  /\ CurrentClass.recurse
  /\ stack' = Append(stack, NewFrame(Current.content, FALSE, Current.name))
  /\ UNCHANGED <<arg, fs, calls, attempts, renames, returns>>

\* CloseArchive with the close of line 176 put off until after the renaming
CloseArchiveLater ==
  /\ At("loop")
  /\ Top.i > Len(Top.files)
  /\ fs' = Append_a(fs, script_logs_path, Top.script_log)
  /\ stack' = SetTop([Top EXCEPT !.pc = "rename", !.log_open = FALSE,
                                 !.script_log = <<>>])
  /\ UNCHANGED <<arg, calls, attempts, renames, returns>>

\* lines 176-177
CloseArchive ==
  /\ At("loop")
  /\ Top.i > Len(Top.files)
  /\ fs' = Append_a(fs, script_logs_path, Top.script_log)
  /\ stack' = SetTop([Top EXCEPT !.pc = "rename", !.archive_open = FALSE,
                                 !.log_open = FALSE, !.script_log = <<>>])
  /\ UNCHANGED <<arg, calls, attempts, renames, returns>>

\* line 180 with rename_volumes false, and line 183
ReturnTrue ==
  /\ \/ At("rename") /\ ~Top.rename_volumes
     \/ At("renamed")
  /\ Return("True")
  /\ UNCHANGED <<arg, fs, attempts, renames>>

\* lines 180-181 and 58: _rename_volumes is entered, the glob of the
\* statistics files is taken
RenameBegin ==
  /\ At("rename")
  /\ Top.rename_volumes
  /\ stack' = SetTop([Top EXCEPT !.pc = "rn_file", !.vfiles = GlobVolstats(fs)])
  /\ calls' = [calls EXCEPT ![Len(calls)].passes = @ + 1]
  /\ UNCHANGED <<arg, fs, attempts, renames, returns>>

\* lines 58-62: the next statistics file, in the order the glob yields
RenameOpenFile ==
  /\ At("rn_file")
  /\ \E v \in Top.vfiles :
       IF ~is_file(fs, v)
       THEN /\ Raise(fs)
            /\ UNCHANGED <<arg, attempts, renames>>
       ELSE /\ stack' = SetTop([Top EXCEPT !.pc = "rn_row",
                                           !.vfiles = @ \ {v},
                                           !.cols = fs.files[v].cols,
                                           !.rows = fs.files[v].rows])
            /\ UNCHANGED <<arg, fs, calls, attempts, renames, returns>>

\* lines 64-66: the next row; with a mount point, the glob of the folders
RenameRow ==
  /\ At("rn_row")
  /\ Top.rows /= <<>>
  /\ LET row == Head(Top.rows)
     IN  IF MountPointOf(Top.cols, row) = <<>>
         THEN /\ stack' = SetTop([Top EXCEPT !.rows = Tail(@)])
              /\ UNCHANGED <<fs, calls, returns>>
         ELSE IF "VolumeID" \notin Top.cols
         THEN Raise(fs)
         ELSE /\ stack' = SetTop([Top EXCEPT !.pc = "rn_dir",
                                             !.entries = GlobVolume(fs, row.VolumeID)])
              /\ UNCHANGED <<fs, calls, returns>>
  /\ UNCHANGED <<arg, attempts, renames>>

\* lines 67-71: one rename that succeeds
RenameDir ==
  /\ At("rn_dir")
  /\ \E dir \in Top.entries :
       LET target == RenameTarget(dir, Head(Top.rows))
           r == os_rename(fs, dir, target)
       IN  /\ r.ok
           /\ fs' = r.fs
           /\ stack' = SetTop([Top EXCEPT !.entries = @ \ {dir}])
           /\ renames' = Append(renames, [call |-> Len(calls), src |-> dir,
                                          dst |-> target, ok |-> TRUE])
  /\ UNCHANGED <<arg, calls, attempts, returns>>

\* lines 67-71: dir.rename raises OSError, which nothing catches
RenameRaises ==
  /\ At("rn_dir")
  /\ \E dir \in Top.entries :
       LET target == RenameTarget(dir, Head(Top.rows))
           r == os_rename(fs, dir, target)
       IN  /\ ~r.ok
           /\ Raise(fs)
           /\ renames' = Append(renames, [call |-> Len(calls), src |-> dir,
                                          dst |-> target, ok |-> FALSE])
  /\ UNCHANGED <<arg, attempts>>

\* the loop of line 66 is over: the next row
RenameRowDone ==
  /\ At("rn_dir")
  /\ Top.entries = {}
  /\ stack' = SetTop([Top EXCEPT !.pc = "rn_row", !.rows = Tail(@)])
  /\ UNCHANGED <<arg, fs, calls, attempts, renames, returns>>

\* the loop of line 64 is over: the file is closed
RenameFileDone ==
  /\ At("rn_row")
  /\ Top.rows = <<>>
  /\ stack' = SetTop([Top EXCEPT !.pc = "rn_file", !.cols = {}])
  /\ UNCHANGED <<arg, fs, calls, attempts, renames, returns>>

\* the loop of line 58 is over: _rename_volumes returns
RenameDone ==
  /\ At("rn_file")
  /\ Top.vfiles = {}
  /\ stack' = SetTop([Top EXCEPT !.pc = "renamed"])
  /\ UNCHANGED <<arg, fs, calls, attempts, renames, returns>>

Next ==
  \/ Call
  \/ OpenArchive
  \/ OpenInvalid
  \/ ReadAll
  \/ ManifestScan
  \/ MemberWrite
  \/ MemberRecurse
  \/ CloseArchive
  \/ RenameBegin
  \/ RenameOpenFile
  \/ RenameRow
  \/ RenameDir
  \/ RenameRaises
  \/ RenameRowDone
  \/ RenameFileDone
  \/ RenameDone
  \/ ReturnTrue

Spec == Init /\ [][Next]_vars

\* The calls of the scenario archives, of the archives of one member and of
\* a file that is no archive, on an empty destination and on one that holds
\* a renamed volume. A call that has a statement to run runs it: the
\* interpreter does not stop.
FairInit ==
  /\ Init
  /\ arg.archive \in {SevenZ(s) : s \in Scenarios \cup MemberLists(1, 0)}
                       \cup {Bad7z}
  /\ fs \in {EmptyTree, RenamedTree}

FairSpec == FairInit /\ [][Next]_vars /\ WF_vars(Next)

(***************************************************************************)
(* Archives and destinations outside the documented data model: a nested   *)
(* archive whose GetThis.csv has no FullName column, a manifest row whose  *)
(* FullName begins with two separators, a destination that is a file.      *)
(***************************************************************************)
ManifestNoFullName ==
  Csv({"SampleName", "VolumeID", "SnapshotID"},
      << GRow(<<"s", "1">>, V1, ZeroSnapshot, <<>>) >>)

ManifestTwoSeparators ==
  Csv(GetThisCols,
      << GRow(<<"s", "1">>, V1, ZeroSnapshot, <<"\\", "\\", "e", "\\", "x">>) >>)

HostileArchives ==
  { << Member(<<"a", ".", "7", "z">>,
              SevenZ(<< Member(GetThisName, ManifestNoFullName) >>)),
       Member(<<"s", "1">>, Raw(1)) >>,
    << Member(GetThisName, ManifestTwoSeparators),
       Member(<<"s", "1">>, Raw(1)) >> }

HostileInputs ==
  {[archive |-> c, archive_name |-> TopName, rename_volumes |-> r] :
     c \in {SevenZ(s) : s \in HostileArchives \cup Scenarios} \cup {Bad7z},
     r \in BOOLEAN}

\* the destination is a file
BlockedTree ==
  [files |-> Put(<<>>, destination_path, Raw(7)), dirs |-> { <<>> }, readonly |-> {}]

HostileInit ==
  /\ arg \in HostileInputs
  /\ fs \in InitialTrees \cup {BlockedTree}
  /\ stack = <<>>
  /\ calls = <<>>
  /\ attempts = <<>>
  /\ renames = <<>>
  /\ returns = <<>>

HostileSpec == HostileInit /\ [][Next]_vars

(***************************************************************************)
(* The manifest parser on its own: extract on an archive whose only member *)
(* is a GetThis.csv of at most MaxRows rows, each row drawn from RowPool.   *)
(* FullName begins with one separator, of either kind.                     *)
(***************************************************************************)
RowPool ==
  {GRow(s, v, n, f) :
     s \in { <<"s", "1">>, <<"d", "\\", "s", "2">> },
     v \in {V1, V2},
     n \in {ZeroSnapshot, S1},
     f \in { <<"\\", "U", "\\", "a">>, <<"/", "b">> }}

RECURSIVE RowLists(_)
RowLists(n) ==
  IF n = 0 THEN { <<>> }
  ELSE RowLists(n - 1) \cup
       {Append(rows, r) : rows \in {x \in RowLists(n - 1) : Len(x) = n - 1},
                          r \in RowPool}

ParseInputs ==
  {[archive |-> SevenZ(<< Member(GetThisName, Csv(GetThisCols, rows)) >>),
    archive_name |-> TopName, rename_volumes |-> FALSE] : rows \in RowLists(MaxRows)}

ParseInit ==
  /\ arg \in ParseInputs
  /\ fs = EmptyTree
  /\ stack = <<>>
  /\ calls = <<>>
  /\ attempts = <<>>
  /\ renames = <<>>
  /\ returns = <<>>

ParseNext ==
  \/ Call
  \/ OpenArchive
  \/ ReadAll
  \/ ManifestScan
  \/ MemberWrite
  \/ CloseArchive
  \/ ReturnTrue

ParseSpec == ParseInit /\ [][ParseNext]_vars

(***************************************************************************)
(* The claims.                                                             *)
(***************************************************************************)
\* a step that calls _write_file, and the record of that call
IsWriteStep == Len(attempts') = Len(attempts) + 1
Attempt == attempts'[Len(attempts')]

\* C1: no write overwrites an existing file.  A step that calls _write_file
\* leaves every file that exists with the content it has; when a file
\* exists at the destination the step changes nothing in the tree, returns
\* failure for that one member, and the loop is at the next member.
C1_NoOverwrite ==
  [][IsWriteStep =>
       /\ \A p \in DOMAIN fs.files :
            p \in DOMAIN fs'.files /\ fs'.files[p] = fs.files[p]
       /\ Attempt.final_path \in DOMAIN fs.files =>
            /\ fs' = fs
            /\ ~Attempt.ok
            /\ Len(stack') = Len(stack)
            /\ stack'[Len(stack')].pc = "loop"
            /\ stack'[Len(stack')].i = Top.i + 1]_vars

\* C1 witness: the write of sample s1 was attempted on the file that was
\* there before the call, and the file still holds its own bytes
C1_Witness ==
  \E k \in DOMAIN attempts :
    /\ attempts[k].collision
    /\ attempts[k].final_path = destination_path \o <<V1, <<"U">>, <<"a">> >>
    /\ attempts[k].filename = <<"s", "1">>
    /\ is_file(fs, attempts[k].final_path)
    /\ fs.files[attempts[k].final_path] = Raw(9)

\* the destination tree without the text of non_extracted.log
SameTree(f, g) ==
  /\ f.dirs = g.dirs
  /\ DOMAIN f.files = DOMAIN g.files
  /\ \A p \in DOMAIN f.files \ {script_logs_path} : f.files[p] = g.files[p]

\* C2: idempotence.  When extract has run twice on the same archive and the
\* same destination with the default arguments (rename_volumes true), the
\* second run has written no file and the tree after it, the text of
\* non_extracted.log aside, is the tree it started on.
C2_SecondRunNoEffect ==
  (/\ Len(calls) = 2
   /\ calls[1].outcome = "True"
   /\ calls[2].outcome /= "running"
   /\ arg.rename_volumes)
  => /\ SameTree(fs, calls[2].before)
     /\ \A k \in DOMAIN attempts : attempts[k].call = 2 => ~attempts[k].ok

\* the lines of non_extracted.log, and the lines the open handles hold
LogLines ==
  IF is_file(fs, script_logs_path) THEN fs.files[script_logs_path].rows ELSE <<>>

RECURSIVE BufferedLines(_)
BufferedLines(frames) ==
  IF frames = <<>> THEN <<>>
  ELSE BufferedLines(SubSeq(frames, 1, Len(frames) - 1)) \o Last(frames).script_log

Count(seq, x) == Cardinality({k \in DOMAIN seq : seq[k] = x})

\* the line a failed write of the history must have left
LineOf(a) == [archive |-> a.holder, member |-> a.filename, path |-> a.final_path]
FailedLines == [k \in DOMAIN SelectSeq(attempts, LAMBDA a : ~a.ok) |->
                  LineOf(SelectSeq(attempts, LAMBDA a : ~a.ok)[k])]

IsPrefix(s, u) == Len(s) <= Len(u) /\ SubSeq(u, 1, Len(s)) = s

\* C3: every failed write has exactly one line archiveName,memberName,path
\* in non_extracted.log, archiveName being the name of the container that
\* holds the member; a write that succeeds has none; lines are only added.
\* Lines written by a call that is still running may be in its handle; once
\* no call is running they are all in the file.
C3_LogInvariant ==
  /\ \A l \in {FailedLines[k] : k \in DOMAIN FailedLines}
            \cup {LogLines[k] : k \in DOMAIN LogLines} :
       Count(LogLines \o BufferedLines(stack), l) = Count(FailedLines, l)
  /\ stack = <<>> => Len(LogLines) = Len(FailedLines)

C3_FailureLog == []C3_LogInvariant /\ [][IsPrefix(LogLines, LogLines')]_vars

\* C3 witness: no call is running; a member of the nested archive a.7z and a
\* member of the outer archive failed, another member was written, and the
\* file holds the two lines
C3_Witness ==
  /\ stack = <<>>
  /\ \E j, k, m \in DOMAIN attempts :
       /\ ~attempts[j].ok /\ attempts[j].holder = <<"a", ".", "7", "z">>
       /\ ~attempts[k].ok /\ attempts[k].holder = TopName
       /\ attempts[m].ok
       /\ Count(LogLines, LineOf(attempts[j])) = 1
       /\ Count(LogLines, LineOf(attempts[k])) = 1
  /\ Len(LogLines) = 2

\* the rows of the manifest of a container, and the member names its
\* manifest names
ManifestRowsOf(members) ==
  IF \E k \in DOMAIN members : members[k].name = GetThisName
  THEN (CHOOSE m \in {members[k] : k \in DOMAIN members} : m.name = GetThisName).content.rows
  ELSE <<>>

ManifestKeys(members) ==
  {NormSep(ManifestRowsOf(members)[k].SampleName) : k \in DOMAIN ManifestRowsOf(members)}

\* a member that is itself a container to extract
IsNested(members, m) ==
  /\ m.name \notin ManifestKeys(members)
  /\ ~endswith(m.name, LogExt)
  /\ m.name \notin {GetThisName, StatisticsName}
  /\ endswith(m.name, ArchiveExt)

\* the members to write, in order, of the members from index i on of a
\* container and of the valid containers nested in them
RECURSIVE Traversal(_, _, _)
Traversal(members, i, holder) ==
  IF i > Len(members) THEN <<>>
  ELSE (IF IsNested(members, members[i])
        THEN IF members[i].content.kind = "7z"
             THEN Traversal(members[i].content.members, 1, members[i].name)
             ELSE <<>>
        ELSE << [holder |-> holder, filename |-> members[i].name] >>)
       \o Traversal(members, i + 1, holder)

AttemptsOf(c) ==
  [k \in DOMAIN SelectSeq(attempts, LAMBDA a : a.call = c) |->
     [holder |-> SelectSeq(attempts, LAMBDA a : a.call = c)[k].holder,
      filename |-> SelectSeq(attempts, LAMBDA a : a.call = c)[k].filename]]

\* C4: a failed write never aborts the traversal: when a call on a valid
\* container is over, a write has been attempted, in order, for every member
\* of the container and of the valid containers nested in it, whatever the
\* number of writes that failed.
C4_TraversalComplete ==
  \A c \in DOMAIN calls :
    (calls[c].outcome \in {"True", "raised"}) =>
       AttemptsOf(c) = Traversal(arg.archive.members, 1, TopName)

\* C4 witness: in a call that is over, a write failed in the nested archive,
\* a later member of the nested archive and a later member of the outer
\* archive were attempted
C4_Witness ==
  \E c \in DOMAIN calls : \E j, k, m \in DOMAIN attempts :
    /\ calls[c].outcome = "True"
    /\ attempts[j].call = c /\ attempts[k].call = c /\ attempts[m].call = c
    /\ ~attempts[j].ok /\ attempts[j].depth = 2
    /\ j < k /\ attempts[k].depth = 2
    /\ k < m /\ attempts[m].depth = 1

\* the folder of a volume and the place of a sample under it, as the
\* manifest row names them
VolumeRootFolder(row) ==
  IF row.SnapshotID = ZeroSnapshot THEN row.VolumeID
  ELSE row.VolumeID \o <<" ", "(", "v", "s", "s", " ">> \o row.SnapshotID \o <<")">>

RelativeFullName(row) ==
  SubSeq(NormSep(row.FullName), 2, Len(NormSep(row.FullName)))

ExpectedAt(row) ==
  destination_path \o <<VolumeRootFolder(row)>> \o PathParts(RelativeFullName(row))

\* the loop of extract is at a member
InLoop == stack /= <<>> /\ Top.pc = "loop" /\ Top.i <= Len(Top.files)

\* the step writes, or tries to write, the member the loop is at to path p
WrittenAt(p) ==
  /\ IsWriteStep
  /\ Attempt.filename = Current.name /\ Attempt.content = Current.content
  /\ Attempt.final_path = p

\* the step opens the member the loop is at as a container and writes nothing
Recursed ==
  /\ ~IsWriteStep /\ fs' = fs
  /\ Len(stack') = Len(stack) + 1
  /\ stack'[Len(stack')].archive = Current.content
  /\ stack'[Len(stack')].archive_name = Current.name

\* C5: the first rule that matches, in the order manifest key, .log,
\* GetThis.csv or Statistics.json, .7z, otherwise, decides what the step of
\* the loop does with a member: written under the destination at a path of
\* the manifest, at orc_outputs/logs/<name>, at
\* orc_outputs/logs/<archive name less .7z>_<name>, extracted recursively
\* with no file written, or written at orc_outputs/commands/<name>.
C5_Classification ==
  [][InLoop =>
       LET name == Current.name
           rows == ManifestRowsOf(Top.files)
           isKey == name \in ManifestKeys(Top.files)
           isLog == endswith(name, LogExt)
           isMeta == name \in {GetThisName, StatisticsName}
           isArch == endswith(name, ArchiveExt)
           base == SubSeq(Holder, 1, Len(Holder) - Len(ArchiveExt))
       IN  /\ isKey =>
                \E k \in DOMAIN rows : /\ NormSep(rows[k].SampleName) = name
                                       /\ WrittenAt(ExpectedAt(rows[k]))
           /\ (~isKey /\ isLog) =>
                WrittenAt(destination_path \o <<OrcOutputs, Logs, name>>)
           /\ (~isKey /\ ~isLog /\ isMeta) =>
                WrittenAt(destination_path
                            \o <<OrcOutputs, Logs, base \o <<"_">> \o name>>)
           /\ (~isKey /\ ~isLog /\ ~isMeta /\ isArch) => Recursed
           /\ (~isKey /\ ~isLog /\ ~isMeta /\ ~isArch) =>
                WrittenAt(destination_path \o <<OrcOutputs, Commands, name>>)]_vars

\* C5 witness: the members a.log and b.7z, both keys of the manifest, were
\* written at the paths of the manifest, Statistics.json of the archive
\* o.7z at logs/o_Statistics.json, and a nested archive was opened
C5_Witness ==
  /\ \E j, k \in DOMAIN attempts :
       /\ attempts[j].filename = <<"a", ".", "l", "o", "g">> /\ attempts[j].ok
       /\ attempts[j].final_path =
            destination_path \o << <<"V", "1", " ", "(", "v", "s", "s", " ", "S", "1", ")">>,
                                   <<"U">>, <<"a">> >>
       /\ attempts[k].filename = <<"b", ".", "7", "z">> /\ attempts[k].ok
       /\ attempts[k].final_path = destination_path \o << <<"V", "2">>, <<"b">> >>
       /\ attempts[j].call = attempts[k].call

\* the member lists of a container and of the valid containers extract
\* opens in it
RECURSIVE ReachedContainers(_)
ReachedContainers(members) ==
  {members} \cup
  UNION {ReachedContainers(members[k].content.members) :
           k \in {n \in DOMAIN members : /\ IsNested(members, members[n])
                                         /\ members[n].content.kind = "7z"}}

LastCall == calls[Len(calls)]

\* C6 as stated: after extract has returned, for every manifest row whose
\* sample name is the name of a member of the same container, the bytes of
\* the member are in the file destination/volume folder/relative FullName.
C6_BytesAtManifestPath ==
  (stack = <<>> /\ calls /= <<>> /\ LastCall.outcome = "True") =>
     \A members \in ReachedContainers(arg.archive.members) :
       \A k \in DOMAIN ManifestRowsOf(members) : \A n \in DOMAIN members :
         members[n].name = NormSep(ManifestRowsOf(members)[k].SampleName) =>
           /\ is_file(fs, ExpectedAt(ManifestRowsOf(members)[k]))
           /\ fs.files[ExpectedAt(ManifestRowsOf(members)[k])] = members[n].content

\* the last row of a manifest for a sample name
LastRowFor(rows, name) ==
  rows[CHOOSE k \in DOMAIN rows :
         /\ NormSep(rows[k].SampleName) = name
         /\ \A j \in DOMAIN rows : NormSep(rows[j].SampleName) = name => j <= k]

\* a rename of a later step of the same or of a later call has moved the
\* folder the path is in
MovedSince(a) ==
  \E k \in DOMAIN renames :
    /\ renames[k].ok /\ renames[k].call >= a.call
    /\ Len(renames[k].src) <= Len(a.final_path)
    /\ SubSeq(a.final_path, 1, Len(renames[k].src)) = renames[k].src

C6_WriteStep ==
  (InLoop /\ Current.name \in ManifestKeys(Top.files)) =>
     LET p == ExpectedAt(LastRowFor(ManifestRowsOf(Top.files), Current.name))
     IN  /\ WrittenAt(p)
         /\ IF is_file(fs, p)
            THEN ~Attempt.ok /\ fs' = fs
            ELSE Attempt.ok => is_file(fs', p) /\ fs'.files[p] = Current.content

C6_Kept ==
  \A k \in DOMAIN attempts :
    (attempts[k].ok /\ ~MovedSince(attempts[k])) =>
       /\ is_file(fs, attempts[k].final_path)
       /\ fs.files[attempts[k].final_path] = attempts[k].content

\* C6, amended: a member whose name is the sample name of manifest rows of
\* its container is written at destination/volume folder/relative FullName
\* of the last of these rows; when no file is there and the write does not
\* fail, the bytes of the member are there, unaltered, and stay there until
\* a volume rename moves the folder; when a file is there it is left as it
\* is and the member is skipped.
C6_BytesAtLastRowPath == [][C6_WriteStep]_vars /\ []C6_Kept

\* C6 witness: the sample s1, named by two rows of the manifest, has been
\* written in the folder of the volume of the last row and is still there
\* when extract has returned; nothing is in the folder of the first row
C6_Witness ==
  /\ stack = <<>> /\ calls /= <<>> /\ LastCall.outcome = "True"
  /\ \E k \in DOMAIN attempts :
       /\ attempts[k].filename = <<"s", "1">> /\ attempts[k].ok
       /\ attempts[k].final_path = destination_path \o <<V1, <<"U">>, <<"a">> >>
       /\ is_file(fs, attempts[k].final_path)
       /\ fs.files[attempts[k].final_path] = Raw(1)
  /\ ~is_file(fs, destination_path \o <<V2, <<"U">>, <<"a">> >>)

\* C7: the mapping the parser builds has one key per separator-normalized
\* SampleName, and the path of a key is volume folder/relative FullName of
\* the last row with that SampleName; the volume folder is VolumeID for the
\* all-zero SnapshotID and "VolumeID (vss SnapshotID)" otherwise; the
\* relative FullName is the normalized FullName less its first separator.
C7_ManifestMapping ==
  \A f \in DOMAIN stack :
    (stack[f].pc \notin {"open", "readall", "scan"}) =>
       LET rows == ManifestRowsOf(stack[f].files)
           mapping == stack[f].getthis_mapping
       IN  /\ DOMAIN mapping = {NormSep(rows[k].SampleName) : k \in DOMAIN rows}
           /\ \A key \in DOMAIN mapping :
                mapping[key] =
                  PurePath(VolumeRootFolder(LastRowFor(rows, key)) \o <<"/">>
                             \o RelativeFullName(LastRowFor(rows, key)))

\* C7 witness: a manifest of two rows with the SampleName d\s2, the first
\* on V2 with the all-zero snapshot, the last on V1 with the snapshot S1,
\* has been parsed: the key d/s2 has the path V1 (vss S1)/U/a
C7_Witness ==
  /\ At("loop")
  /\ LET rows == ManifestRowsOf(Top.files)
     IN  /\ Len(rows) = 2
         /\ rows[1] = GRow(<<"d", "\\", "s", "2">>, V2, ZeroSnapshot, <<"/", "b">>)
         /\ rows[2] = GRow(<<"d", "\\", "s", "2">>, V1, S1, <<"\\", "U", "\\", "a">>)
  /\ DOMAIN Top.getthis_mapping = { <<"d", "/", "s", "2">> }
  /\ Top.getthis_mapping[<<"d", "/", "s", "2">>] =
       [abs |-> FALSE,
        parts |-> << <<"V", "1", " ", "(", "v", "s", "s", " ", "S", "1", ")">>,
                     <<"U">>, <<"a">> >>]

IsValid(archive) == archive.kind = "7z"

\* C8: extract returns False exactly when the container of the call is not
\* a valid archive, for the call of the caller and for the nested calls, and
\* a call on a valid container yields True, whatever the number of failed
\* writes and of nested containers that did not open.
C8_ReturnValue ==
  /\ \A k \in DOMAIN returns :
       /\ returns[k].value \in {"True", "False"}
       /\ returns[k].value = "False" <=> ~IsValid(returns[k].archive)
  /\ \A c \in DOMAIN calls :
       calls[c].outcome /= "running" =>
         /\ calls[c].outcome = "False" <=> ~IsValid(arg.archive)
         /\ IsValid(arg.archive) => calls[c].outcome = "True"

\* C9: a rename that fails does not end the renaming pass with an
\* exception: the call goes on and returns.
C9_RenameFailureTolerated ==
  \A k \in DOMAIN renames :
    ~renames[k].ok => calls[renames[k].call].outcome \in {"running", "True"}

\* the rows with a mount point of the statistics files of the tree
VolstatsRows ==
  UNION {{fs.files[q].rows[k] : k \in DOMAIN fs.files[q].rows}
           : q \in GlobVolstats(fs) \cap DOMAIN fs.files}

StatisticsRows == {row \in VolstatsRows : row.MountPoint /= <<>>}

\* the entries of the destination whose name begins with a volume id
Matching(volume_id) ==
  {d \in fs.dirs \cup DOMAIN fs.files :
     /\ Len(d) = Len(destination_path) + 1
     /\ SubSeq(d, 1, Len(destination_path)) = destination_path
     /\ Len(d[Len(d)]) >= Len(volume_id)
     /\ SubSeq(d[Len(d)], 1, Len(volume_id)) = volume_id}

PassOver ==
  /\ stack = <<>> /\ calls /= <<>>
  /\ LastCall.outcome \in {"True", "raised"}
  /\ arg.rename_volumes

Renamed == renames'[Len(renames')]

\* a rename of the history is the rename of an entry whose name begins with
\* the volume id of a row with a mount point to the name with the first
\* character of the mount point in place of the volume id; done, it moves
\* the folder and what is in it; failed, it leaves the tree and ends the call
C10_RenameStep ==
  Len(renames') = Len(renames) + 1 =>
    /\ Renamed.src \in fs.dirs
    /\ \E row \in StatisticsRows :
         /\ Renamed.src \in Matching(row.VolumeID)
         /\ Renamed.dst =
              destination_path \o
                << <<row.MountPoint[1]>>
                     \o SubSeq(Last(Renamed.src), Len(row.VolumeID) + 1,
                               Len(Last(Renamed.src))) >>
    /\ IF Renamed.ok
       THEN /\ Renamed.src \notin fs'.dirs /\ Renamed.dst \in fs'.dirs
            /\ \A p \in DOMAIN fs.files :
                 (Len(p) > Len(Renamed.src)
                  /\ SubSeq(p, 1, Len(Renamed.src)) = Renamed.src) =>
                   LET moved == Renamed.dst \o SubSeq(p, Len(Renamed.src) + 1, Len(p))
                   IN  /\ p \notin DOMAIN fs'.files
                       /\ moved \in DOMAIN fs'.files
                       /\ fs'.files[moved] = fs.files[p]
       ELSE /\ fs'.dirs = fs.dirs /\ fs'.files = fs.files
            /\ stack' = <<>> /\ calls'[Len(calls')].outcome = "raised"

C10_PassDone ==
  PassOver =>
     \/ \A row \in StatisticsRows : Matching(row.VolumeID) = {}
     \/ /\ LastCall.outcome = "raised"
        /\ \E k \in DOMAIN renames : renames[k].call = Len(calls) /\ ~renames[k].ok

RenamePcs == {"rn_file", "rn_row", "rn_dir", "renamed"}

\* C11: a top-level call enters the renaming at most once, and only with
\* rename_volumes true; a nested call has rename_volumes false and is never
\* in the renaming; while the renaming runs no nested call is left, a write
\* has been attempted for every member of the archive and of its nested
\* archives, and the line of every failed write is in non_extracted.log;
\* every rename of the history belongs to such a pass.
C11_RenameOnceAtTheEnd ==
  /\ \A c \in DOMAIN calls :
       /\ calls[c].passes <= 1
       /\ calls[c].passes = 1 => arg.rename_volumes
  /\ \A f \in DOMAIN stack :
       /\ f > 1 => ~stack[f].rename_volumes /\ stack[f].pc \notin RenamePcs
       /\ stack[f].pc \in RenamePcs =>
            /\ Len(stack) = 1 /\ stack[f].rename_volumes
            /\ calls[Len(calls)].passes = 1
            /\ AttemptsOf(Len(calls)) = Traversal(arg.archive.members, 1, TopName)
            /\ Len(LogLines) = Len(FailedLines)
  /\ \A k \in DOMAIN renames : calls[renames[k].call].passes = 1

\* C11 witness: a call that extracted a nested archive has renamed V1 to C
\* in its one pass and has returned
C11_Witness ==
  \E c \in DOMAIN calls :
    /\ calls[c].outcome = "True" /\ calls[c].passes = 1
    /\ \E k \in DOMAIN returns :
         returns[k].call = c /\ returns[k].depth = 2 /\ returns[k].value = "True"
    /\ \E k \in DOMAIN attempts : attempts[k].call = c /\ attempts[k].depth = 2
    /\ \E k \in DOMAIN renames : renames[k].call = c /\ renames[k].ok

\* C12: a call that is over has left no archive and no log handle open,
\* whether it returned or ended with an exception.
C12_AllReleased ==
  \A c \in DOMAIN calls : calls[c].outcome /= "running" => calls[c].left_open = 0

\* the files under orc_outputs/commands
CommandFiles ==
  {p \in DOMAIN fs.files : /\ Len(p) > Len(cmd_ouptuts_path)
                           /\ SubSeq(p, 1, Len(cmd_ouptuts_path)) = cmd_ouptuts_path}

C13_Step ==
  InLoop =>
    /\ IsNested(Top.files, Current) => Recursed
    /\ (Len(stack) > 1 /\ Current.name \in ManifestKeys(Top.files)) =>
         WrittenAt(ExpectedAt(LastRowFor(ManifestRowsOf(Top.files), Current.name)))

C13_NoArchiveInCommands ==
  /\ \A p \in CommandFiles : ~endswith(Last(p), ArchiveExt)
  /\ \A k \in DOMAIN attempts :
       endswith(attempts[k].filename, ArchiveExt) =>
         ~(Len(attempts[k].final_path) > Len(cmd_ouptuts_path)
           /\ SubSeq(attempts[k].final_path, 1, Len(cmd_ouptuts_path)) = cmd_ouptuts_path)

\* C13: a member whose name ends in .7z and is no key of the manifest is
\* never written, and no file of that name is under orc_outputs/commands:
\* the step of the loop starts extract on its content, with the name of the
\* member as archive_name; a member of the nested archive that its own
\* manifest names is written at the path of that manifest.
C13_NestedUnpacked == [][C13_Step]_vars /\ []C13_NoArchiveInCommands

\* C13 witness: the call is over; the sample s1 of the nested archive a.7z
\* is at the path of the manifest of a.7z, the sample s1 of the outer
\* archive at the path of the outer manifest, and nothing named a.7z is
\* under commands
C13_Witness ==
  /\ stack = <<>> /\ calls /= <<>> /\ LastCall.outcome = "True"
  /\ \E j, k \in DOMAIN attempts :
       /\ attempts[j].holder = <<"a", ".", "7", "z">> /\ attempts[j].depth = 2
       /\ attempts[j].filename = <<"s", "1">> /\ attempts[j].ok
       /\ attempts[j].final_path =
            destination_path \o << <<"V", "2", " ", "(", "v", "s", "s", " ", "S", "1", ")">>,
                                   <<"U">>, <<"c">> >>
       /\ fs.files[attempts[j].final_path] = Raw(3)
       /\ attempts[k].holder = TopName /\ attempts[k].filename = <<"s", "1">>
       /\ attempts[k].final_path = destination_path \o <<V1, <<"U">>, <<"a">> >>
  /\ ~exists(fs, cmd_ouptuts_path \o << <<"a", ".", "7", "z">> >>)

\* the mapping a frame must hold: none before line 149, that of the
\* GetThis.csv of its own archive after it
OwnMapping(frame) ==
  IF frame.pc \in {"open", "readall", "scan"} THEN frame.getthis_mapping = <<>>
  ELSE /\ DOMAIN frame.getthis_mapping = ManifestKeys(frame.files)
       /\ \A key \in DOMAIN frame.getthis_mapping :
            frame.getthis_mapping[key] =
              PurePath(VolumeRootFolder(LastRowFor(ManifestRowsOf(frame.files), key))
                         \o <<"/">>
                         \o RelativeFullName(LastRowFor(ManifestRowsOf(frame.files), key)))

C14_ParentKept ==
  \A f \in DOMAIN stack :
    (f \in DOMAIN stack' /\ stack[f].pc = "loop" /\ stack'[f].pc = "loop") =>
       stack'[f].getthis_mapping = stack[f].getthis_mapping

\* C14: the mapping of a call is that of the manifest of its own archive,
\* empty when the archive has none, whatever the mapping of the calls below
\* it on the stack; while a call is in its loop, and across a nested call,
\* its mapping does not change.
C14_MappingScoped ==
  [](\A f \in DOMAIN stack : OwnMapping(stack[f])) /\ [][C14_ParentKept]_vars

\* C14 witness: the nested archive a.7z has no manifest; its member s1 was
\* tried at commands/s1 though the outer manifest names s1; after the nested
\* call the outer s1 was written at the path of the outer manifest
C14_Witness ==
  \E j, k \in DOMAIN attempts :
    /\ j < k /\ attempts[j].call = attempts[k].call
    /\ attempts[j].depth = 2 /\ attempts[j].filename = <<"s", "1">>
    /\ attempts[j].final_path = cmd_ouptuts_path \o << <<"s", "1">> >>
    /\ attempts[k].depth = 1 /\ attempts[k].filename = <<"s", "1">>
    /\ attempts[k].final_path = destination_path \o <<V1, <<"U">>, <<"a">> >>

\* two writes of one call, of members GetThis.csv or Statistics.json of the
\* same name, in nested archives: the archives are two, as the names of the
\* members of one archive are distinct
ManifestsOfTwoNested(j, k) ==
  /\ j /= k /\ attempts[j].call = attempts[k].call
  /\ attempts[j].depth > 1 /\ attempts[k].depth > 1
  /\ attempts[j].filename \in {GetThisName, StatisticsName}
  /\ attempts[j].filename = attempts[k].filename

\* C15 as stated: the GetThis.csv (or Statistics.json) members of two
\* different nested archives of one extraction are written at different
\* paths.
C15_ManifestsApart ==
  \A j, k \in DOMAIN attempts :
    ManifestsOfTwoNested(j, k) => attempts[j].final_path /= attempts[k].final_path

\* C15, amended: the path of such a member is orc_outputs/logs/<name of the
\* holding archive less .7z>_<name>, so the members of two nested archives
\* of different names are written at different paths and neither collides
\* with the other; two nested archives of the same name share the path.
C15_ManifestsApartByName ==
  \A j, k \in DOMAIN attempts :
    ManifestsOfTwoNested(j, k) =>
      /\ attempts[j].final_path =
           destination_path \o
             <<OrcOutputs, Logs,
               SubSeq(attempts[j].holder, 1, Len(attempts[j].holder) - Len(ArchiveExt))
                 \o <<"_">> \o attempts[j].filename>>
      /\ attempts[j].holder /= attempts[k].holder =>
           attempts[j].final_path /= attempts[k].final_path
      /\ attempts[j].holder = attempts[k].holder =>
           attempts[j].final_path = attempts[k].final_path

\* C15 witness: the GetThis.csv of a.7z and that of c.7z have both been
\* written, at logs/a_GetThis.csv and logs/c_GetThis.csv
C15_Witness ==
  \E j, k \in DOMAIN attempts :
    /\ ManifestsOfTwoNested(j, k)
    /\ attempts[j].holder = <<"a", ".", "7", "z">> /\ attempts[j].ok
    /\ attempts[k].holder = <<"c", ".", "7", "z">> /\ attempts[k].ok
    /\ attempts[j].final_path =
         logs_path \o << <<"a", "_">> \o GetThisName >>
    /\ attempts[k].final_path =
         logs_path \o << <<"c", "_">> \o GetThisName >>
    /\ is_file(fs, attempts[j].final_path) /\ is_file(fs, attempts[k].final_path)
    /\ fs.files[attempts[j].final_path] /= fs.files[attempts[k].final_path]

\* the order of the positions of one call
PcOrder ==
  { <<"open", "readall">>, <<"readall", "scan">>, <<"scan", "loop">>,
    <<"loop", "rename">>, <<"rename", "rn_file">>,
    <<"rn_file", "rn_row">>, <<"rn_row", "rn_dir">>, <<"rn_dir", "rn_row">>,
    <<"rn_row", "rn_file">>, <<"rn_file", "renamed">> }

C16_InOrder ==
  \A f \in DOMAIN stack :
    (f \in DOMAIN stack' /\ stack'[f].pc /= stack[f].pc) =>
       <<stack[f].pc, stack'[f].pc>> \in PcOrder

\* opened from the scan on, the mapping complete in the loop
C16_OpenedAndScanned ==
  \A f \in DOMAIN stack :
    /\ stack[f].pc = "open" => ~stack[f].archive_open
    /\ stack[f].pc \in {"readall", "scan", "loop"} => stack[f].archive_open
    /\ OwnMapping(stack[f])

\* C16 as stated: the positions of a call follow the order opening, scan of
\* the manifest, writes, renaming, and the archive is still open while the
\* renaming runs: it is closed after it.
C16_ClosedAfterRename ==
  /\ C16_OpenedAndScanned
  /\ \A f \in DOMAIN stack : stack[f].pc \in RenamePcs => stack[f].archive_open

\* C16, amended: the positions of a call follow the order opening, scan of
\* the manifest, writes, close, renaming; the mapping of the call is
\* complete before the first member is classified; the archive and the log
\* handle are closed before the renaming begins and stay closed.
C16_ClosedBeforeRename ==
  /\ [][C16_InOrder]_vars
  /\ [](/\ C16_OpenedAndScanned
        /\ \A f \in DOMAIN stack :
             stack[f].pc \in {"rename"} \cup RenamePcs =>
               ~stack[f].archive_open /\ ~stack[f].log_open)

\* C16 witness: a call that has written the members of its manifest is
\* renaming a folder; its archive is closed
C16_Witness ==
  /\ At("rn_dir") /\ Top.entries /= {}
  /\ ~Top.archive_open /\ ~Top.log_open
  /\ Top.getthis_mapping /= <<>>
  /\ \E k \in DOMAIN attempts : attempts[k].call = Len(calls) /\ attempts[k].ok

\* the number of archives in an archive, itself included
RECURSIVE Archives(_)
Archives(c) ==
  IF c.kind /= "7z" THEN 0
  ELSE LET n[k \in 0..Len(c.members)] ==
             IF k = 0 THEN 1 ELSE n[k - 1] + Archives(c.members[k].content)
       IN  n[Len(c.members)]

\* the nesting depth of an archive
RECURSIVE NestingDepth(_)
NestingDepth(c) ==
  IF c.kind /= "7z" THEN 0
  ELSE LET m[k \in 0..Len(c.members)] ==
             IF k = 0 THEN 0
             ELSE IF NestingDepth(c.members[k].content) > m[k - 1]
                  THEN NestingDepth(c.members[k].content) ELSE m[k - 1]
       IN  1 + m[Len(c.members)]

\* a step that calls extract from extract
C17_Descent ==
  Len(stack') = Len(stack) + 1 /\ stack /= <<>> =>
    /\ InLoop /\ endswith(Current.name, ArchiveExt)
    /\ stack'[Len(stack')].archive = Current.content
    /\ Archives(stack'[Len(stack')].archive) < Archives(Top.archive)

\* C17: a call of extract ends; extract calls itself only on a member whose
\* name ends in .7z, on the content of that member, which holds fewer
\* archives than the archive of the caller; the stack is never deeper than
\* the archive is nested, plus the call on a member that is no archive.
C17_Terminates ==
  /\ (stack /= <<>>) ~> (stack = <<>>)
  /\ [][C17_Descent]_vars
  /\ [](Len(stack) <= NestingDepth(arg.archive) + 1)

\* C17 witness: all the calls are over, and one of them went three archives
\* deep
C17_Witness ==
  /\ stack = <<>> /\ Len(calls) = MaxCalls
  /\ \E k \in DOMAIN attempts : attempts[k].depth = 3

\* C18: every file extract has written, and every file of the tree, lies
\* under destination_path, whatever the member names and the FullName of the
\* manifest rows are
C18_WritesUnderRoot ==
  /\ \A k \in DOMAIN attempts :
       attempts[k].ok => IsUnder(attempts[k].final_path, destination_path)
  /\ \A p \in DOMAIN fs.files : IsUnder(p, destination_path)

\* the rows with a mount point of the statistics tables the archive of the
\* call and its nested archives carry
CarriedRows ==
  UNION { UNION { {members[n].content.rows[k] : k \in DOMAIN members[n].content.rows}
                  : n \in {m \in DOMAIN members : members[m].name = VolstatsName} }
          : members \in ReachedContainers(arg.archive.members) }

\* the writes of statistics tables the last call has tried
TableWrites ==
  {k \in DOMAIN attempts : /\ attempts[k].call = Len(calls)
                           /\ attempts[k].filename = VolstatsName}

\* C19: when extract with renaming has returned, every row with a mount
\* point of every statistics table of the archive and of its nested archives
\* has been applied, no folder named after its volume is left, and no table
\* was skipped because another table of the call was written to its path
C19_EveryTableApplied ==
  (stack = <<>> /\ calls /= <<>> /\ LastCall.outcome = "True" /\ arg.rename_volumes) =>
     /\ \A row \in CarriedRows :
          row.MountPoint /= <<>> => Matching(row.VolumeID) = {}
     /\ \A j, k \in TableWrites :
          (j < k /\ attempts[j].ok /\ attempts[j].final_path = attempts[k].final_path)
            => attempts[k].content = attempts[j].content

\* a step in which a call of extract returns False
ReturnsFalse ==
  /\ Len(returns') = Len(returns) + 1
  /\ returns'[Len(returns')].value = "False"

\* the step leaves the tree, the writes and the renames as they are; a
\* nested call hands over to the frame below, which is at its next member
C20_Step ==
  ReturnsFalse =>
    /\ stack /= <<>> /\ ~IsValid(Top.archive)
    /\ fs' = fs /\ attempts' = attempts /\ renames' = renames
    /\ Len(stack') = Len(stack) - 1
    /\ \A f \in DOMAIN stack' : f < Len(stack') => stack'[f] = stack[f]
    /\ Len(stack) > 1 =>
         /\ stack'[Len(stack')] = [stack[Len(stack) - 1] EXCEPT !.i = @ + 1]
         /\ stack'[Len(stack')].pc = "loop"

\* C20: a call of extract on a file that is no archive changes nothing: the
\* tree is as it was before the call (no file, no directory, no
\* non_extracted.log, no line added to it), nothing is written or renamed;
\* when the file is a member of an archive, the call on the archive goes on
\* with the member after it.
C20_InvalidChangesNothing ==
  /\ [][C20_Step]_vars
  /\ [](~IsValid(arg.archive) =>
          /\ attempts = <<>> /\ renames = <<>>
          /\ \A c \in DOMAIN calls :
               /\ calls[c].before = fs
               /\ calls[c].outcome \in {"running", "False"}
          /\ \A k \in DOMAIN returns : returns[k].value = "False")

\* C20 witness: the first member of the archive is named b.7z and is no
\* archive; the nested call on it has returned False and the member after
\* it has been written
C20_Witness ==
  /\ IsValid(arg.archive) /\ Len(arg.archive.members) >= 2
  /\ endswith(arg.archive.members[1].name, ArchiveExt)
  /\ ~IsValid(arg.archive.members[1].content)
  /\ returns /= <<>> /\ returns[1].value = "False" /\ returns[1].depth = 2
  /\ \E k \in DOMAIN attempts :
       /\ attempts[k].call = 1 /\ attempts[k].depth = 1
       /\ attempts[k].index = 2 /\ attempts[k].ok

=============================================================================
